---- MODULE Spec2Model ----
(***************************************************************************)
(* Model of src/project1.py: the command loop of the address-book          *)
(* assistant, its validated fields (Phone, Birthday), Record, AddressBook  *)
(* and the upcoming-birthday query.                                        *)
(*                                                                         *)
(* Strings that the program inspects character by character (names, phone  *)
(* and date tokens) are sequences of one-character strings.  A date is a   *)
(* record [y, m, d].  Each action is one iteration of the loop of main().  *)
(***************************************************************************)
EXTENDS Integers, Sequences, FiniteSets, TLC

VARIABLES book, status, last, out

vars == <<book, status, last, out>>

(* ------------------------------ bounds -------------------------------- *)

\* largest number of phones the directory as a whole is driven to hold
MaxPhones == 2

(* ------------------------- program constants --------------------------- *)

PhoneLen == 10
UpcomingDays == 7
Saturday == 5

(* ------------------------------ characters ----------------------------- *)

AsciiDigits == <<"0", "1", "2", "3", "4", "5", "6", "7", "8", "9">>

\* one character outside ASCII that re's \d (a str pattern) matches and
\* int() converts: U+0663, value 3
ArabicThree == "U+0663"

\* re: \d
IsDigit(c) == (\E i \in 1..10 : AsciiDigits[i] = c) \/ c = ArabicThree

\* int() of one digit character
DigitVal(c) == IF c = ArabicThree THEN 3
               ELSE (CHOOSE i \in 1..10 : AsciiDigits[i] = c) - 1

\* int() of a run of digit characters
RECURSIVE ToInt(_)
ToInt(s) == IF s = <<>> THEN 0
            ELSE 10 * ToInt(SubSeq(s, 1, Len(s) - 1)) + DigitVal(s[Len(s)])

\* zero-padded decimal rendering, as strftime's %d %m %Y
RECURSIVE Pad(_, _)
Pad(n, width) == IF width = 0 THEN <<>>
                 ELSE Append(Pad(n \div 10, width - 1), AsciiDigits[(n % 10) + 1])

(* -------------------------------- dates -------------------------------- *)

IsLeap(y) == (y % 4 = 0) /\ ((y % 100 # 0) \/ (y % 400 = 0))

DaysInMonth(y, m) == IF m = 2 THEN (IF IsLeap(y) THEN 29 ELSE 28)
                     ELSE IF m \in {4, 6, 9, 11} THEN 30 ELSE 31

RECURSIVE DaysBeforeMonth(_, _)
DaysBeforeMonth(y, m) == IF m = 1 THEN 0
                         ELSE DaysBeforeMonth(y, m - 1) + DaysInMonth(y, m - 1)

\* date.toordinal(): 1 for 0001-01-01
ToOrdinal(dt) == LET p == dt.y - 1 IN
                 p * 365 + (p \div 4) - (p \div 100) + (p \div 400)
                 + DaysBeforeMonth(dt.y, dt.m) + dt.d

\* date.weekday(): Monday is 0
Weekday(dt) == (ToOrdinal(dt) + 6) % 7

\* date < date
DateLess(a, b) == \/ a.y < b.y
                  \/ a.y = b.y /\ a.m < b.m
                  \/ a.y = b.y /\ a.m = b.m /\ a.d < b.d

NextDay(dt) == IF dt.d < DaysInMonth(dt.y, dt.m) THEN [dt EXCEPT !.d = dt.d + 1]
               ELSE IF dt.m < 12 THEN [y |-> dt.y, m |-> dt.m + 1, d |-> 1]
               ELSE [y |-> dt.y + 1, m |-> 1, d |-> 1]

\* date + timedelta(days=n), n >= 0
RECURSIVE AddDays(_, _)
AddDays(dt, n) == IF n = 0 THEN dt ELSE AddDays(NextDay(dt), n - 1)

\* datetime(y, m, d).date(): ValueError unless the date exists
MakeDate(y, m, d) ==
    IF m \notin 1..12 THEN [err |-> "month must be in 1..12", date |-> [y |-> 0, m |-> 0, d |-> 0]]
    ELSE IF d \notin 1..DaysInMonth(y, m)
         THEN [err |-> "day is out of range for month", date |-> [y |-> 0, m |-> 0, d |-> 0]]
         ELSE [err |-> "", date |-> [y |-> y, m |-> m, d |-> d]]

\* date.replace(year=y): ValueError for 29 February in a common year
ReplaceYear(dt, y) == MakeDate(y, dt.m, dt.d)

\* date.strftime("%d.%m.%Y")
Strftime(dt) == Pad(dt.d, 2) \o <<".">> \o Pad(dt.m, 2) \o <<".">> \o Pad(dt.y, 4)

(* --------------------------- validated fields --------------------------- *)

None == <<>>

\* re.match(r'^\d{10}$', value)
PhoneMatch(value) == Len(value) = PhoneLen /\ \A i \in 1..Len(value) : IsDigit(value[i])

\* re.match(r'^\d{2}\.\d{2}\.\d{4}$', value)
BirthdayMatch(value) ==
    /\ Len(value) = 10
    /\ \A i \in {1, 2, 4, 5, 7, 8, 9, 10} : IsDigit(value[i])
    /\ value[3] = "."
    /\ value[6] = "."

\* map(int, value.split('.')) of a stored birthday
BirthdayParts(value) == [d |-> ToInt(SubSeq(value, 1, 2)),
                         m |-> ToInt(SubSeq(value, 4, 5)),
                         y |-> ToInt(SubSeq(value, 7, 10))]

(* -------------------------------- Record -------------------------------- *)

\* Record.__init__
NewRecord(name) == [name |-> name, phones |-> <<>>, birthday |-> None]

\* add_phone inserting at the front of the list
AddPhonePrepend(rec, phone) ==
    IF PhoneMatch(phone)
    THEN [err |-> "", rec |-> [rec EXCEPT !.phones = <<phone>> \o rec.phones]]
    ELSE [err |-> "Phone number must be 10 digits.", rec |-> rec]

\* Record.add_phone: the result carries the ValueError text, "" when none
AddPhone(rec, phone) ==
    IF PhoneMatch(phone)
    THEN [err |-> "", rec |-> [rec EXCEPT !.phones = Append(rec.phones, phone)]]
    ELSE [err |-> "Phone number must be 10 digits.", rec |-> rec]

\* edit_phone assigning the new value without constructing Phone(new_phone)
EditPhoneUnchecked(rec, old_phone, new_phone) ==
    LET hits == {i \in 1..Len(rec.phones) : rec.phones[i] = old_phone} IN
    IF hits = {} THEN [err |-> "Old phone not found.", rec |-> rec]
    ELSE LET i == CHOOSE k \in hits : \A j \in hits : k <= j IN
         [err |-> "", rec |-> [rec EXCEPT !.phones[i] = new_phone]]

\* Record.edit_phone: the first phone equal to old_phone decides
EditPhone(rec, old_phone, new_phone) ==
    LET hits == {i \in 1..Len(rec.phones) : rec.phones[i] = old_phone} IN
    IF hits = {} THEN [err |-> "Old phone not found.", rec |-> rec]
    ELSE LET i == CHOOSE k \in hits : \A j \in hits : k <= j IN
         IF PhoneMatch(new_phone)
         THEN [err |-> "", rec |-> [rec EXCEPT !.phones[i] = new_phone]]
         ELSE [err |-> "New phone number is not valid.", rec |-> rec]

\* Record.add_birthday
SetBirthday(rec, birthday) ==
    IF BirthdayMatch(birthday)
    THEN [err |-> "", rec |-> [rec EXCEPT !.birthday = birthday]]
    ELSE [err |-> "Invalid date format. Use DD.MM.YYYY", rec |-> rec]

(* ------------------------------ AddressBook ----------------------------- *)
(* The dict is a sequence of records in insertion order; the key of a      *)
(* record is its name.                                                     *)

Keys(b) == {b[i].name : i \in 1..Len(b)}

\* AddressBook.find: the position of the record, 0 for None
Find(b, name) == IF name \in Keys(b)
                 THEN CHOOSE i \in 1..Len(b) : b[i].name = name
                 ELSE 0

\* AddressBook.add_record: data[record.name.value] = record
AddRecord(b, rec) == IF Find(b, rec.name) = 0 THEN Append(b, rec)
                     ELSE [b EXCEPT ![Find(b, rec.name)] = rec]

\* the weekend test written as weekday() > 5: a Saturday is not shifted
GreetingDateSundayOnly(occ) == IF Weekday(occ) > Saturday
                               THEN AddDays(occ, 7 - Weekday(occ))
                               ELSE occ

\* the reported date of one occurrence (lines 101-102)
GreetingDate(occ) == IF Weekday(occ) >= Saturday
                     THEN AddDays(occ, 7 - Weekday(occ))
                     ELSE occ

\* the occurrence compared with today (lines 96-98)
Occurrence(bday, today) ==
    LET this == MakeDate(today.y, bday.m, bday.d) IN
    IF this.err # "" THEN this
    ELSE IF DateLess(this.date, today) THEN ReplaceYear(this.date, today.y + 1)
    ELSE this

\* the membership test (lines 99-100)
InWindow(occ, today) ==
    LET days_to_bday == ToOrdinal(occ) - ToOrdinal(today) IN
    0 <= days_to_bday /\ days_to_bday <= UpcomingDays

\* AddressBook.get_upcoming_birthdays, from record i on; a ValueError
\* raised for one record ends the loop and discards the list
RECURSIVE Upcoming(_, _, _, _)
Upcoming(b, today, i, acc) ==
    IF i > Len(b) THEN [err |-> "", list |-> acc]
    ELSE IF b[i].birthday = None THEN Upcoming(b, today, i + 1, acc)
    ELSE LET occ == Occurrence(BirthdayParts(b[i].birthday), today) IN
         IF occ.err # "" THEN [err |-> occ.err, list |-> <<>>]
         ELSE IF InWindow(occ.date, today)
              THEN Upcoming(b, today, i + 1,
                            Append(acc, [name |-> b[i].name,
                                         birthday |-> Strftime(GreetingDate(occ.date))]))
              ELSE Upcoming(b, today, i + 1, acc)

GetUpcomingBirthdays(b, today) == Upcoming(b, today, 1, <<>>)

(* ------------------------------- handlers ------------------------------- *)
(* A handler yields the directory after the call and the printed response; *)
(* input_error turns ValueError into its text, KeyError into                *)
(* "Contact not found.".                                                   *)

Resp(b, msg, items) == [book |-> b, out |-> [msg |-> msg, items |-> items]]

NotEnough == "not enough values to unpack"
TooMany == "too many values to unpack"

\* add_contact building and storing a fresh Record on every call
AddContactAlwaysNew(args, b) ==
    IF Len(args) < 2 THEN Resp(b, NotEnough, <<>>)
    ELSE LET name == args[1]
             phone == args[2]
             b1 == AddRecord(b, NewRecord(name))
             i == Find(b1, name)
             r == AddPhone(b1[i], phone)
         IN IF r.err # "" THEN Resp(b1, r.err, <<>>)
            ELSE Resp([b1 EXCEPT ![i] = r.rec], "Contact added.", <<>>)

\* add_contact
AddContact(args, b) ==
    IF Len(args) < 2 THEN Resp(b, NotEnough, <<>>)
    ELSE LET name == args[1]
             phone == args[2]
             found == Find(b, name)
             b1 == IF found = 0 THEN AddRecord(b, NewRecord(name)) ELSE b
             message == IF found = 0 THEN "Contact added." ELSE "Contact updated."
             i == Find(b1, name)
             r == AddPhone(b1[i], phone)
         IN IF r.err # "" THEN Resp(b1, r.err, <<>>)
            ELSE Resp([b1 EXCEPT ![i] = r.rec], message, <<>>)

\* add_birthday creating the record of an unknown name, as add_contact does
AddBirthdayCreating(args, b) ==
    IF Len(args) < 2 THEN Resp(b, NotEnough, <<>>)
    ELSE IF Len(args) > 2 THEN Resp(b, TooMany, <<>>)
    ELSE LET b1 == IF Find(b, args[1]) = 0 THEN AddRecord(b, NewRecord(args[1])) ELSE b
             i == Find(b1, args[1])
             r == SetBirthday(b1[i], args[2])
         IN IF r.err # "" THEN Resp(b1, r.err, <<>>)
            ELSE Resp([b1 EXCEPT ![i] = r.rec], "Birthday added.", <<>>)

\* add_birthday
AddBirthday(args, b) ==
    IF Len(args) < 2 THEN Resp(b, NotEnough, <<>>)
    ELSE IF Len(args) > 2 THEN Resp(b, TooMany, <<>>)
    ELSE LET i == Find(b, args[1]) IN
         IF i = 0 THEN Resp(b, "Contact not found.", <<>>)
         ELSE LET r == SetBirthday(b[i], args[2]) IN
              IF r.err # "" THEN Resp(b, r.err, <<>>)
              ELSE Resp([b EXCEPT ![i] = r.rec], "Birthday added.", <<>>)

\* show_birthday: the name is the whole argument text, so an argument of
\* several tokens names no record
ShowBirthday(args, b) ==
    LET i == IF Len(args) = 1 THEN Find(b, args[1]) ELSE 0 IN
    IF i = 0 \/ (i # 0 /\ b[i].birthday = None) THEN Resp(b, "No birthday found.", <<>>)
    ELSE Resp(b, "birthday is", <<[name |-> args[1], birthday |-> b[i].birthday]>>)

\* birthdays
Birthdays(b, today) ==
    LET r == GetUpcomingBirthdays(b, today) IN
    IF r.err # "" THEN Resp(b, r.err, <<>>)
    ELSE IF r.list = <<>> THEN Resp(b, "No upcoming birthdays.", <<>>)
    ELSE Resp(b, "upcoming", r.list)

\* change_phone
ChangePhone(args, b) ==
    IF Len(args) < 3 THEN Resp(b, NotEnough, <<>>)
    ELSE IF Len(args) > 3 THEN Resp(b, TooMany, <<>>)
    ELSE LET i == Find(b, args[1]) IN
         IF i = 0 THEN Resp(b, "Contact not found.", <<>>)
         ELSE LET r == EditPhone(b[i], args[2], args[3]) IN
              IF r.err # "" THEN Resp(b, r.err, <<>>)
              ELSE Resp([b EXCEPT ![i] = r.rec], "Phone number changed.", <<>>)

\* show_all_contacts
ShowAllContacts(b) ==
    IF b = <<>> THEN Resp(b, "No contacts in the address book.", <<>>)
    ELSE Resp(b, "contacts", b)

(* -------------------------------- inputs -------------------------------- *)

Ann == <<"A", "n", "n">>
Bob == <<"B", "o", "b">>
Names == {Ann, Bob}

P1 == <<"1", "2", "3", "4", "5", "6", "7", "8", "9", "0">>
P2 == <<"0", "5", "0", "1", "2", "3", "4", "5", "6", ArabicThree>>
NineDigits == SubSeq(P1, 1, 9)
ElevenDigits == P1 \o <<"1">>
WithLetter == NineDigits \o <<"x">>
GoodPhones == {P1, P2}
BadPhones == {NineDigits, ElevenDigits, WithLetter}
PhoneTokens == GoodPhones \cup BadPhones

\* DD.MM.YYYY text of any three numbers, a real date or not
Dotted(d, m, y) == Pad(d, 2) \o <<".">> \o Pad(m, 2) \o <<".">> \o Pad(y, 4)

ShapedDates == {Dotted(15, 6, 1990), Dotted(2, 1, 1999), Dotted(29, 2, 2020),
                Dotted(31, 4, 2020), Dotted(0, 13, 2020)}
UnshapedDates == {Pad(1, 1) \o <<".">> \o Pad(6, 1) \o <<".">> \o Pad(1990, 4),
                  Pad(15, 2) \o <<"-">> \o Pad(6, 2) \o <<"-">> \o Pad(1990, 4)}
DateTokens == ShapedDates \cup UnshapedDates

Day(y, m, d) == [y |-> y, m |-> m, d |-> d]
NoDay == Day(0, 0, 0)

\* values of datetime.today().date()
Todays == {Day(2024, 6, 7), Day(2024, 6, 8), Day(2024, 6, 10), Day(2024, 6, 15),
           Day(2024, 6, 16), Day(2025, 6, 10), Day(2024, 12, 28),
           Day(2024, 2, 25), Day(2024, 3, 1)}

AddArgs == {<<Ann>>}
           \cup {<<n, p>> : n \in Names, p \in GoodPhones \cup {WithLetter}}
           \cup {<<Ann, p>> : p \in {NineDigits, ElevenDigits}}
           \cup {<<Ann, P2, P1>>, <<Bob, WithLetter, P1>>}
AddBirthdayArgs == {<<Bob>>, <<Ann, Dotted(15, 6, 1990), P1>>}
                   \cup {<<n, d>> : n \in Names, d \in ShapedDates}
                   \cup {<<Ann, d>> : d \in UnshapedDates}
ShowBirthdayArgs == {<<n>> : n \in Names} \cup {<<Ann, Bob>>}
ChangeArgs == {<<Ann, P1>>, <<Bob, P1, P2, P1>>}
              \cup {a \in {<<n, o, p>> : n \in Names, o \in GoodPhones,
                                          p \in GoodPhones \cup {WithLetter}} :
                        a[2] # a[3]}
              \cup {<<Bob, NineDigits, P1>>, <<Ann, P1, ElevenDigits>>}
OtherArgs == {<<Ann>>}
Words == {"hello", "all", "birthdays", "add", "exit"}

(* ------------------------------ the loop ------------------------------- *)

\* the phones held from record i on
RECURSIVE PhoneCount(_, _)
PhoneCount(b, i) == IF i > Len(b) THEN 0 ELSE Len(b[i].phones) + PhoneCount(b, i + 1)

Init == /\ book = <<>>
        /\ status = "running"
        /\ last = [cmd |-> "", args |-> <<>>, today |-> NoDay]
        /\ out = [msg |-> "Welcome to the assistant bot!", items |-> <<>>]

\* one iteration that prints the response of a handler
Answer(cmd, args, today, r) ==
    /\ book' = r.book
    /\ out' = r.out
    /\ last' = [cmd |-> cmd, args |-> args, today |-> today]
    /\ status' = "running"

\* a line with no space after the command word: parse_input yields one
\* element and the unpacking on line 165 raises ValueError out of main
NoArguments ==
    /\ status = "running"
    /\ \E w \in Words :
         /\ last' = [cmd |-> w, args |-> <<>>, today |-> NoDay]
         /\ status' = "crashed"
         /\ out' = [msg |-> "ValueError", items |-> <<>>]
         /\ book' = book

Exit ==
    /\ status = "running"
    /\ \E w \in {"close", "exit"}, args \in OtherArgs :
         /\ last' = [cmd |-> w, args |-> args, today |-> NoDay]
         /\ status' = "exited"
         /\ out' = [msg |-> "Good bye!", items |-> <<>>]
         /\ book' = book

Hello ==
    /\ status = "running"
    /\ \E args \in OtherArgs :
         Answer("hello", args, NoDay, Resp(book, "How can I help you?", <<>>))

Add ==
    /\ status = "running"
    /\ \E args \in AddArgs :
         /\ PhoneCount(book, 1) < MaxPhones
         /\ Answer("add", args, NoDay, AddContact(args, book))

AddBirthdayCmd ==
    /\ status = "running"
    /\ \E args \in AddBirthdayArgs :
         Answer("add-birthday", args, NoDay, AddBirthday(args, book))

ShowBirthdayCmd ==
    /\ status = "running"
    /\ \E args \in ShowBirthdayArgs :
         Answer("show-birthday", args, NoDay, ShowBirthday(args, book))

BirthdaysCmd ==
    /\ status = "running"
    /\ \E args \in OtherArgs, today \in Todays :
         Answer("birthdays", args, today, Birthdays(book, today))

Change ==
    /\ status = "running"
    /\ \E args \in ChangeArgs :
         Answer("change", args, NoDay, ChangePhone(args, book))

All ==
    /\ status = "running"
    /\ \E args \in OtherArgs :
         Answer("all", args, NoDay, ShowAllContacts(book))

Invalid ==
    /\ status = "running"
    /\ \E args \in OtherArgs :
         Answer("list", args, NoDay, Resp(book, "Invalid command.", <<>>))

Next == \/ NoArguments
        \/ Exit
        \/ Hello
        \/ Add
        \/ AddBirthdayCmd
        \/ ShowBirthdayCmd
        \/ BirthdaysCmd
        \/ Change
        \/ All
        \/ Invalid

Spec == Init /\ [][Next]_vars

(* ------------------------------ properties ------------------------------ *)

ErrorMsgs == {"Phone number must be 10 digits.", "Invalid date format. Use DD.MM.YYYY",
              "New phone number is not valid.", "Old phone not found.",
              "Contact not found.", NotEnough, TooMany,
              "day is out of range for month", "month must be in 1..12"}

DecimalDigits == {"0", "1", "2", "3", "4", "5", "6", "7", "8", "9", ArabicThree}

TenDigits(v) == Len(v) = 10 /\ \A i \in 1..Len(v) : v[i] \in DecimalDigits

RealDate(p) == /\ p.m >= 1 /\ p.m <= 12
               /\ p.d >= 1
               /\ p.d <= (IF p.m = 2 THEN (IF IsLeap(p.y) THEN 29 ELSE 28)
                          ELSE IF p.m \in {4, 6, 9, 11} THEN 30 ELSE 31)

\* the record of a name in a directory that holds it
RecordOf(b, name) == b[CHOOSE i \in 1..Len(b) : b[i].name = name]

StoredPhonesValid == \A i \in 1..Len(book) : \A j \in 1..Len(book[i].phones) :
                        TenDigits(book[i].phones[j])

\* C1: every phone stored in the directory is a string of exactly 10
\* decimal digits; an add with any other phone string is answered with the
\* phone format error, and a change whose old phone is found but whose new
\* value is not 10 digits is answered with an error and replaces nothing.
C1_PhonesAreTenDigits ==
    /\ []StoredPhonesValid
    /\ [][/\ (last'.cmd = "add" /\ Len(last'.args) >= 2 /\ ~TenDigits(last'.args[2]))
             => out'.msg = "Phone number must be 10 digits."
          /\ (/\ last'.cmd = "change" /\ Len(last'.args) = 3
              /\ last'.args[1] \in Keys(book)
              /\ ~TenDigits(last'.args[3]))
             => /\ out'.msg \in {"New phone number is not valid.", "Old phone not found."}
                /\ book' = book]_vars

C1_Witness == /\ last.cmd = "change"
              /\ out.msg = "Phone number changed."
              /\ \E i \in 1..Len(book) : /\ book[i].name = last.args[1]
                                         /\ Len(book[i].phones) = 2
                                         /\ last.args[3] = P2
                                         /\ book[i].phones[2] = P2

\* C2: every birthday stored in the directory is a real calendar date
\* (add-birthday rejects DD.MM.YYYY-shaped strings that are not).
C2_StoredBirthdaysReal ==
    \A i \in 1..Len(book) :
        book[i].birthday = None \/ RealDate(BirthdayParts(book[i].birthday))

\* C3: no input line other than close/exit ends the command loop.
C3_OnlyExitEndsLoop == status # "running" => last.cmd \in {"close", "exit"}

\* the names whose day and month occur on one of the days today .. today+7
ExpectedNames(b, today) ==
    {b[i].name : i \in {j \in 1..Len(b) :
        /\ b[j].birthday # None
        /\ \E k \in 0..7 : LET dt == AddDays(today, k)
                               p == BirthdayParts(b[j].birthday)
                           IN dt.m = p.m /\ dt.d = p.d}}

ReturnedNames == IF out.msg = "upcoming"
                 THEN {out.items[i].name : i \in 1..Len(out.items)}
                 ELSE {}

\* C4: get_upcoming_birthdays returns an entry for exactly the records
\* that have a birthday whose next occurrence is 0 to 7 days from today.
C4_UpcomingIffWithinWeek ==
    last.cmd = "birthdays" => ReturnedNames = ExpectedNames(book, last.today)

\* the first Monday after a day
FirstMondayAfter(dt) ==
    AddDays(dt, CHOOSE j \in 1..7 : /\ Weekday(AddDays(dt, j)) = 0
                                    /\ \A h \in 1..(j - 1) : Weekday(AddDays(dt, h)) # 0)

\* C5: every returned entry reports the birthday occurrence itself when it
\* falls on Monday to Friday and the first Monday after it otherwise; the
\* reported date is never a Saturday or Sunday and lies at most 9 days
\* after today.
C5_GreetingDate ==
    (last.cmd = "birthdays" /\ out.msg = "upcoming") =>
    \A e \in 1..Len(out.items) :
        LET p == BirthdayParts(RecordOf(book, out.items[e].name).birthday)
            ks == {k \in 0..7 : AddDays(last.today, k).m = p.m
                                /\ AddDays(last.today, k).d = p.d}
            reported == BirthdayParts(out.items[e].birthday)
        IN /\ ks # {}
           /\ LET occ == AddDays(last.today, CHOOSE k \in ks : TRUE)
                  greet == IF Weekday(occ) \in 0..4 THEN occ ELSE FirstMondayAfter(occ)
              IN /\ out.items[e].birthday = Dotted(greet.d, greet.m, greet.y)
                 /\ BirthdayMatch(out.items[e].birthday)
                 /\ RealDate(reported)
                 /\ Weekday(reported) \notin {5, 6}
                 /\ ToOrdinal(reported) - ToOrdinal(last.today) \in 0..9

C5_Witness == /\ last.cmd = "birthdays"
              /\ out.msg = "upcoming"
              /\ \E e \in 1..Len(out.items) :
                    ToOrdinal(BirthdayParts(out.items[e].birthday))
                    - ToOrdinal(last.today) = 9

\* a lookup command with the number of arguments its handler unpacks
WellFormedLookup(l) == \/ l.cmd = "add-birthday" /\ Len(l.args) = 2
                       \/ l.cmd = "change" /\ Len(l.args) = 3
                       \/ l.cmd = "show-birthday" /\ Len(l.args) = 1

NamesUnique == \A i, j \in 1..Len(book) : book[i].name = book[j].name => i = j

\* every record stays, in its place, under its name, with its earlier
\* phones as a prefix of its phones or with the same number of phones
RecordsKept ==
    /\ Len(book') >= Len(book)
    /\ \A i \in 1..Len(book) :
          /\ book'[i].name = book[i].name
          /\ Len(book'[i].phones) >= Len(book[i].phones)
          /\ last'.cmd \in {"add", "change"} => book'[i].birthday = book[i].birthday
          /\ last'.cmd \in {"add", "add-birthday"} =>
                SubSeq(book'[i].phones, 1, Len(book[i].phones)) = book[i].phones

AddToExisting(valid) ==
    (/\ last'.cmd = "add" /\ Len(last'.args) >= 2
     /\ last'.args[1] \in Keys(book)
     /\ valid)
    => /\ out'.msg = "Contact updated."
       /\ RecordOf(book', last'.args[1]).phones
             = Append(RecordOf(book, last'.args[1]).phones, last'.args[2])
       /\ RecordOf(book', last'.args[1]).birthday
             = RecordOf(book, last'.args[1]).birthday

\* C7 as stated: one record per name, no record destroyed or replaced, and
\* every add command for an existing name answers "Contact updated." and
\* appends to the existing record.
C7_Original ==
    /\ []NamesUnique
    /\ [][RecordsKept /\ AddToExisting(TRUE)]_vars

\* C7 amended: one record per name, no record destroyed or replaced, and
\* an add command with a valid 10-digit phone for an existing name answers
\* "Contact updated." and appends to the existing record, keeping its
\* earlier phones and its birthday.
C7_OneRecordPerName ==
    /\ []NamesUnique
    /\ [][RecordsKept /\ AddToExisting(TenDigits(last'.args[2]))]_vars

C7_Witness == /\ last.cmd = "add"
              /\ out.msg = "Contact updated."
              /\ Len(book) = 2
              /\ \E i \in 1..Len(book) : /\ book[i].name = last.args[1]
                                         /\ Len(book[i].phones) = 2
                                         /\ book[i].birthday # None

\* C8: a successful add appends the phone at the end of the record's list
\* (duplicates included) and a successful change replaces the first phone
\* equal to the old one in place; no other phone moves.
C8_PhoneOrder ==
    [][/\ (last'.cmd = "add" /\ out'.msg \in {"Contact added.", "Contact updated."})
          => LET name == last'.args[1]
                 before == IF name \in Keys(book) THEN RecordOf(book, name).phones ELSE <<>>
                 after == RecordOf(book', name).phones
             IN /\ Len(after) = Len(before) + 1
                /\ after[Len(after)] = last'.args[2]
                /\ \A j \in 1..Len(before) : after[j] = before[j]
       /\ (last'.cmd = "change" /\ out'.msg = "Phone number changed.")
          => LET name == last'.args[1]
                 before == RecordOf(book, name).phones
                 after == RecordOf(book', name).phones
             IN /\ Len(after) = Len(before)
                /\ \E i \in 1..Len(before) :
                      /\ before[i] = last'.args[2]
                      /\ \A h \in 1..(i - 1) : before[h] # last'.args[2]
                      /\ after[i] = last'.args[3]
                      /\ \A j \in 1..Len(before) : j # i => after[j] = before[j]]_vars

C8_Witness == /\ last.cmd = "change"
              /\ last.args = <<Ann, P2, P1>>
              /\ out.msg = "Phone number changed."
              /\ RecordOf(book, Ann).phones = <<P1, P1>>

\* C9: an add, add-birthday or change command answered with an error
\* message leaves the directory unchanged.
C9_ErrorLeavesDirectory ==
    [][(last'.cmd \in {"add", "add-birthday", "change"} /\ out'.msg \in ErrorMsgs)
       => book' = book]_vars

\* C10: the birthdays command answers with the list or with "No upcoming
\* birthdays.", never with an error message; stated for the directories
\* whose stored birthdays are all real calendar dates, 29.02 included.
C10_BirthdaysTotal ==
    (/\ last.cmd = "birthdays"
     /\ status = "running"
     /\ \A i \in 1..Len(book) :
           book[i].birthday # None => RealDate(BirthdayParts(book[i].birthday)))
    => out.msg \in {"upcoming", "No upcoming birthdays."}
====
